---------------------------- MODULE Spec2Model ----------------------------
(***************************************************************************)
(* A model of the two terminal games of the repository:                    *)
(*                                                                         *)
(*   src/VSWorlde.py  the word game: grade_guess (the two-pass feedback    *)
(*                    grader), play_interactive (one round), _selftest     *)
(*                    and main;                                            *)
(*   src/test.py      the number game: main_menu, play_guess_the_number.   *)
(*                                                                         *)
(* A Python str is a sequence of one-character strings, so that indexing,  *)
(* len(), strip() and lower() are computed and not assumed.                *)
(*                                                                         *)
(* Four specifications:                                                     *)
(*   SpecGrade  one direct call grade_guess(arg_solution, arg_guess) on    *)
(*              every pair of bounded inputs;                              *)
(*   Spec       a run of VSWorlde.py, one step per line (or abort) read    *)
(*              from standard input;                                       *)
(*   FairSpec   Spec, with a user who keeps supplying accepted guesses;    *)
(*   SpecScripts  a run of either script.                                  *)
(***************************************************************************)
EXTENDS Integers, Sequences, FiniteSets, TLC

VARIABLES
    script,        \* the script that runs: "VSWorlde.py" or "test.py"
    pc,            \* control position of the running script
    added,         \* the words _augment_from_system_dict added to ALLOWED
    solution,      \* play_interactive: solution
    length,        \* play_interactive: length
    attempt,       \* play_interactive: the for-loop variable
    guess,         \* play_interactive: guess (after strip().lower())
    feedback,      \* play_interactive: feedback of the last graded guess
    graded,        \* number of grade_guess calls made by the round
    rejects,       \* consecutive rejected inputs, saturating at MaxRejects
    stdin,         \* what the last input() call read: a line or an abort
    printed,       \* the last message printed
    status,        \* the exit status of the process (-1 while running)
    uncaught,      \* the exception the process died of ("" if none)
    number,        \* play_guess_the_number: number
    high,          \* play_guess_the_number: high
    max_attempts,  \* play_guess_the_number: max_attempts
    attempts,      \* play_guess_the_number: attempts
    arg_solution,  \* SpecGrade: the solution argument of the call
    arg_guess,     \* SpecGrade: the guess argument of the call
    ret            \* SpecGrade: how the call ended

vars == <<script, pc, added, solution, length, attempt, guess, feedback, graded,
          rejects, stdin, printed, status, uncaught, number, high,
          max_attempts, attempts, arg_solution, arg_guess, ret>>

roundVars == <<solution, length, attempt, guess, feedback, graded, rejects>>
numberVars == <<number, high, max_attempts, attempts>>
callVars == <<arg_solution, arg_guess, ret>>

---------------------------------------------------------------------------
(* Bounds of the model.                                                    *)

\* Longest solution and guess handed to grade_guess in SpecGrade.
MaxLen == 4

\* Where the count of consecutive rejected inputs saturates.
MaxRejects == 2

---------------------------------------------------------------------------
(* Python strings.                                                         *)

UpperCase ==
    <<"A","B","C","D","E","F","G","H","I","J","K","L","M",
      "N","O","P","Q","R","S","T","U","V","W","X","Y","Z">>

LowerCase ==
    <<"a","b","c","d","e","f","g","h","i","j","k","l","m",
      "n","o","p","q","r","s","t","u","v","w","x","y","z">>

DecimalDigits == <<"0","1","2","3","4","5","6","7","8","9">>

Whitespace == {" "}

Range(f) == {f[x] : x \in DOMAIN f}

\* The element of a one-element set: { e(v) : v \in {x} } computes x once
\* and hands it on as a value, as an assignment to a local variable does.
Only(S) == CHOOSE x \in S : TRUE

\* str.lower() of one character.
char_lower(ch) ==
    IF \E k \in DOMAIN UpperCase : UpperCase[k] = ch
    THEN LowerCase[CHOOSE k \in DOMAIN UpperCase : UpperCase[k] = ch]
    ELSE ch

\* str.lower()
str_lower(s) ==
    Only({ [i \in 1..Len(v) |-> Only({ char_lower(ch) : ch \in {v[i]} })] :
             v \in {s} })

\* str.strip(): leading and trailing whitespace removed.
RECURSIVE str_lstrip(_)
str_lstrip(s) ==
    IF s # <<>> /\ Head(s) \in Whitespace THEN str_lstrip(Tail(s)) ELSE s

RECURSIVE str_rstrip(_)
str_rstrip(s) ==
    IF s # <<>> /\ s[Len(s)] \in Whitespace
    THEN str_rstrip(SubSeq(s, 1, Len(s) - 1))
    ELSE s

str_strip(s) == str_rstrip(str_lstrip(s))

\* str.isalpha(): non-empty, letters only.
str_isalpha(s) ==
    /\ s # <<>>
    /\ \A i \in 1..Len(s) : s[i] \in Range(UpperCase) \cup Range(LowerCase)

\* dict.get(k, 0) and d[k] = v on a dict held as a function.
Get(d, k) == IF k \in DOMAIN d THEN d[k] ELSE 0

Put(d, k, v) == [x \in (DOMAIN d) \cup {k} |-> IF x = k THEN v ELSE d[x]]

EmptyDict == [x \in {} |-> 0]

---------------------------------------------------------------------------
(* VSWorlde.py: grade_guess.                                               *)

GREEN == "green"

YELLOW == "yellow"

BLACK == "black"

\* How a call ends: a return value or a raised exception.
Return(v) == [kind |-> "return", exc |-> "", value |-> v]

Raise(e) == [kind |-> "raise", exc |-> e, value |-> <<>>]

NoCall == [kind |-> "none", exc |-> "", value |-> <<>>]

\* if len(solution) != len(guess)
length_mismatch_oneway(sol, gss) == Len(sol) > Len(gss)

length_mismatch(sol, gss) == Len(sol) # Len(gss)

\* remaining[ch] = remaining.get(ch, 0) + 1
count_unmatched_flag(remaining, ch) == Put(remaining, ch, 1)

count_unmatched(remaining, ch) == Put(remaining, ch, Get(remaining, ch) + 1)

\* if feedback[i] == GREEN: continue
already_green_never(fb, i) == FALSE

already_green(fb, i) == fb[i] = GREEN

\* if remaining.get(ch, 0) > 0
available_offbyone(remaining, ch) == Get(remaining, ch) > 1

available(remaining, ch) == Get(remaining, ch) > 0

\* remaining[ch] -= 1
decrement_forgotten(remaining, ch) == remaining

decrement(remaining, ch) == Put(remaining, ch, remaining[ch] - 1)

\* The first loop, from index i on: greens, and the count of the solution's
\* letters that are not matched as greens.
RECURSIVE first_pass(_, _, _, _, _)
first_pass(sol, gss, i, fb, remaining) ==
    IF i > Len(sol)
    THEN [feedback |-> fb, remaining |-> remaining]
    ELSE Only({ first_pass(sol, gss, i + 1, fb1, remaining1) :
                  fb1 \in {IF gss[i] = sol[i]
                           THEN [fb EXCEPT ![i] = GREEN]
                           ELSE fb},
                  remaining1 \in {IF gss[i] = sol[i]
                                  THEN remaining
                                  ELSE count_unmatched(remaining, sol[i])} })

\* The second loop, from index i on: yellows while the letter is still available.
RECURSIVE second_pass(_, _, _, _)
second_pass(gss, i, fb, remaining) ==
    IF i > Len(gss)
    THEN fb
    ELSE Only({ second_pass(gss, i + 1, fb1, remaining1) :
                  fb1 \in {IF ~already_green(fb, i) /\ available(remaining, gss[i])
                           THEN [fb EXCEPT ![i] = YELLOW]
                           ELSE fb},
                  remaining1 \in {IF ~already_green(fb, i) /\ available(remaining, gss[i])
                                  THEN decrement(remaining, gss[i])
                                  ELSE remaining} })

\* The body of grade_guess after the two lower() calls.
grade_lowered(sol, gss) ==
    IF length_mismatch(sol, gss)
    THEN Raise("ValueError")
    ELSE Only({ Return(second_pass(gss, 1, p1.feedback, p1.remaining)) :
                  p1 \in {first_pass(sol, gss, 1, [i \in 1..Len(gss) |-> BLACK],
                                     EmptyDict)} })

grade_guess_guess_not_lowered(sol, gss) ==
    Only({ grade_lowered(s, gss) : s \in {str_lower(sol)} })

grade_guess(sol, gss) ==
    Only({ grade_lowered(s, g) : s \in {str_lower(sol)}, g \in {str_lower(gss)} })

\* all(s == GREEN for s in feedback)
all_green(fb) == \A i \in 1..Len(fb) : fb[i] = GREEN

\* _selftest's table of (solution, guess, expected feedback).
tests ==
    <<
      [sol |-> <<"a","p","p","l","e">>, guess |-> <<"a","p","p","l","e">>,
       expected |-> <<GREEN, GREEN, GREEN, GREEN, GREEN>>],
      [sol |-> <<"c","r","a","n","e">>, guess |-> <<"c","r","a","t","e">>,
       expected |-> <<GREEN, GREEN, GREEN, BLACK, GREEN>>],
      [sol |-> <<"a","r","r","o","w">>, guess |-> <<"r","a","r","e","r">>,
       expected |-> <<YELLOW, YELLOW, GREEN, BLACK, BLACK>>],
      [sol |-> <<"s","e","n","s","e">>, guess |-> <<"s","e","e","d","s">>,
       expected |-> <<GREEN, GREEN, YELLOW, BLACK, YELLOW>>]
    >>

\* _selftest: whether every row of the table grades as expected.
selftest_passes ==
    \A k \in DOMAIN tests :
        LET r == grade_guess(tests[k].sol, tests[k].guess)
        IN  r.kind = "return" /\ r.value = tests[k].expected

---------------------------------------------------------------------------
(* SpecGrade: one call of grade_guess on bounded inputs.                   *)

\* The characters the bounded inputs are written in: two letters, one of
\* them in both cases.
Alphabet == {"a", "b", "A"}

Words(n) == UNION {[1..k -> Alphabet] : k \in 0..n}

GradeInputs ==
    (Words(MaxLen) \X Words(MaxLen))
        \cup {<<tests[k].sol, tests[k].guess>> : k \in DOMAIN tests}

\* The state of a script that was never started.
Idle ==
    /\ script = ""
    /\ pc = "idle"
    /\ added = {}
    /\ solution = <<>>
    /\ length = 0
    /\ attempt = 0
    /\ guess = <<>>
    /\ feedback = <<>>
    /\ graded = 0
    /\ rejects = 0
    /\ stdin = [kind |-> "none", text |-> <<>>]
    /\ printed = [msg |-> "", arg |-> <<>>]
    /\ status = -1
    /\ uncaught = ""
    /\ number = 0
    /\ high = 0
    /\ max_attempts = 0
    /\ attempts = 0

InitGrade ==
    /\ Idle
    /\ \E p \in GradeInputs : arg_solution = p[1] /\ arg_guess = p[2]
    /\ ret = NoCall

\* The call grade_guess(arg_solution, arg_guess).
CallGrade ==
    /\ ret.kind = "none"
    /\ ret' = grade_guess(arg_solution, arg_guess)
    /\ UNCHANGED <<script, pc, added, roundVars, numberVars, stdin, printed,
                   status, uncaught, arg_solution, arg_guess>>

NextGrade == CallGrade

SpecGrade == InitGrade /\ [][NextGrade]_vars


---------------------------------------------------------------------------
(* VSWorlde.py: the word lists, main and play_interactive.                 *)

SOLUTIONS ==
  <<
    <<"a","p","p","l","e">>, <<"g","r","a","c","e">>, <<"p","l","a","n","e">>, <<"c","r","a","n","e">>,
    <<"s","t","o","n","e">>, <<"l","i","g","h","t">>, <<"g","l","a","s","s">>, <<"f","l","a","m","e">>,
    <<"p","r","i","d","e">>, <<"b","r","a","v","e">>, <<"s","h","a","r","d">>, <<"s","h","o","e","s">>,
    <<"p","r","i","s","m">>, <<"c","i","v","i","c">>, <<"r","a","l","l","y">>, <<"k","a","r","m","a">>,
    <<"h","o","n","e","y">>, <<"b","l","i","n","g">>, <<"m","a","n","g","o">>, <<"c","h","a","r","m">>,
    <<"f","l","e","e","t">>, <<"q","u","o","t","a">>, <<"i","n","p","u","t">>, <<"z","e","s","t","y">>,
    <<"d","a","n","c","e">>, <<"e","a","g","l","e">>, <<"f","a","b","l","e">>, <<"g","a","m","e","r">>,
    <<"h","i","p","p","o">>, <<"j","a","z","z","y">>, <<"k","a","y","a","k">>, <<"l","i","n","e","n">>
  >>

\* The words the literal of ALLOWED adds to the solutions.
ALLOWED_extras ==
  {
    <<"a","b","o","u","t">>, <<"o","t","h","e","r">>, <<"w","h","i","c","h">>, <<"t","h","e","i","r">>,
    <<"t","h","e","r","e">>, <<"w","o","u","l","d">>, <<"t","h","e","s","e">>, <<"b","r","o","w","n">>,
    <<"q","u","i","c","k">>, <<"z","e","b","r","a">>, <<"v","i","v","i","d">>, <<"y","o","u","n","g">>,
    <<"q","u","i","e","t">>, <<"p","o","u","n","d">>, <<"b","o","u","n","d">>, <<"s","t","o","n","y">>,
    <<"s","l","o","p","e">>, <<"p","r","i","d","e">>, <<"t","r","a","c","e">>
  }

\* ALLOWED = set(SOLUTIONS) | {...}
ALLOWED_literal == Range(SOLUTIONS) \cup ALLOWED_extras

\* Lines that the system dictionaries and the wordlists folder may hold on
\* the machine the script runs on.
DictLines ==
    { <<"H","e","l","l","o">>, <<"d","o","n","'","t">>,
      <<"t","r","e","e">>, <<"h","i","p","p","o"," ">> }

\* _augment_from_system_dict: the words its loops add to ALLOWED when the
\* files hold the given lines.
augmented(lines) ==
    { str_lower(str_strip(l)) :
        l \in { x \in lines : /\ Len(str_lower(str_strip(x))) = 5
                              /\ str_isalpha(str_lower(str_strip(x))) } }

\* The module's ALLOWED once the import is over.
ALLOWED == ALLOWED_literal \cup added

max_guesses == 6

Msg(m) == [msg |-> m, arg |-> <<>>]

Line(text) == [kind |-> "line", text |-> text]

AbortKinds == {"KeyboardInterrupt", "EOFError"}

\* The exit status of a Python process that dies of exception exc.
died_of(exc) == IF exc = "KeyboardInterrupt" THEN 130 ELSE 1

\* The state after a script's import: for VSWorlde.py ALLOWED is built and
\* main is about to run; test.py stands at its menu.
Started(s) ==
    /\ script = s
    /\ IF s = "VSWorlde.py"
       THEN /\ pc = "main"
            /\ \E lines \in SUBSET DictLines :
                  added = augmented(lines) \ ALLOWED_literal
            /\ printed = Msg("")
       ELSE /\ pc = "menu"
            /\ added = {}
            /\ printed = Msg("Menu")
    /\ solution = <<>>
    /\ length = 0
    /\ attempt = 0
    /\ guess = <<>>
    /\ feedback = <<>>
    /\ graded = 0
    /\ rejects = 0
    /\ stdin = [kind |-> "none", text |-> <<>>]
    /\ status = -1
    /\ uncaught = ""
    /\ number = 0
    /\ high = 0
    /\ max_attempts = 0
    /\ attempts = 0
    /\ arg_solution = <<>>
    /\ arg_guess = <<>>
    /\ ret = NoCall

Init == Started("VSWorlde.py")

\* Values of --word on the command line (the empty string included).
WordArgs ==
    { <<>>,
      <<"C","R","A","N","E">>,
      <<" ","s","l","o","p","e"," ">>,
      <<"h","e","l","l","o">>,
      <<"1","2","3","4","5">>,
      <<"a","b","c">>,
      <<" "," "," "," "," ">> }

\* main, --selftest given: _selftest, then return 0 (sys.exit(2) on a failure).
MainSelftest ==
    /\ script = "VSWorlde.py"
    /\ pc = "main"
    /\ pc' = "exit"
    /\ IF selftest_passes
       THEN printed' = Msg("All self-tests passed.") /\ status' = 0
       ELSE printed' = Msg("Self-test failed") /\ status' = 2
    /\ UNCHANGED <<script, added, roundVars, numberVars, stdin, uncaught, callVars>>

\* main, --word w given with a w that is not 5 characters after strip().
MainBadWord(w) ==
    /\ script = "VSWorlde.py"
    /\ pc = "main"
    /\ w # <<>>
    /\ Len(str_lower(str_strip(w))) # 5
    /\ pc' = "exit"
    /\ printed' = Msg("--word must be a 5-letter word")
    /\ status' = 2
    /\ UNCHANGED <<script, added, roundVars, numberVars, stdin, uncaught, callVars>>

\* The head of play_interactive, up to the first prompt.
StartRound(sol) ==
    /\ solution' = str_lower(sol)
    /\ length' = Len(str_lower(sol))
    /\ attempt' = 1
    /\ pc' = "guess"
    /\ printed' = Msg("Welcome to VSWorlde")
    /\ UNCHANGED <<script, added, guess, feedback, graded, rejects, numberVars,
                   stdin, status, uncaught, callVars>>

\* main, --word w given with a w of 5 characters: play_interactive(forced).
MainForced(w) ==
    /\ script = "VSWorlde.py"
    /\ pc = "main"
    /\ w # <<>>
    /\ Len(str_lower(str_strip(w))) = 5
    /\ StartRound(str_lower(str_strip(w)))

\* main, --word absent or empty: play_interactive(None), which picks
\* random.choice(SOLUTIONS) (any element, whatever --seed is).
MainRandom ==
    /\ script = "VSWorlde.py"
    /\ pc = "main"
    /\ \E k \in DOMAIN SOLUTIONS : StartRound(SOLUTIONS[k])

\* Lines the user may type at the guess prompt, beside the solution itself.
GuessLines ==
    { <<>>,
      <<"a","p","p">>,
      <<"c","r","a","n","e","s">>,
      <<"z","z","z","z","z">>,
      <<"h","e","l","l","o">>,
      <<" ","C","r","a","n","e"," ">>,
      <<"t","r","a","c","e">>,
      <<"e","a","g","l","e">> }

\* if len(guess) != length
wrong_length(g) == Len(g) # length

\* if guess not in ALLOWED
not_in_allowed_unchecked(g) == FALSE

not_in_allowed(g) == g \notin ALLOWED

\* range(1, max_guesses + 1) is exhausted after this attempt.
last_attempt_late(a) == a = max_guesses + 1

last_attempt(a) == a = max_guesses

\* except (KeyboardInterrupt, EOFError) in main
main_catches_interrupt_only(exc) == exc = "KeyboardInterrupt"

main_catches(exc) == exc \in {"KeyboardInterrupt", "EOFError"}

\* A line of the wrong length at the guess prompt: prompt again.
GuessWrongLength(line) ==
    /\ script = "VSWorlde.py"
    /\ pc = "guess"
    /\ \E g \in {str_lower(str_strip(line))} :
          /\ wrong_length(g)
          /\ guess' = g
    /\ stdin' = Line(line)
    /\ printed' = Msg("Please enter a 5-letter word.")
    /\ rejects' = IF rejects < MaxRejects THEN rejects + 1 ELSE rejects
    /\ UNCHANGED <<script, pc, added, solution, length, attempt, feedback, graded,
                   numberVars, status, uncaught, callVars>>

\* A line of the right length that is not in ALLOWED: prompt again.
GuessNotAllowed(line) ==
    /\ script = "VSWorlde.py"
    /\ pc = "guess"
    /\ \E g \in {str_lower(str_strip(line))} :
          /\ ~wrong_length(g)
          /\ not_in_allowed(g)
          /\ guess' = g
    /\ stdin' = Line(line)
    /\ printed' = Msg("Word not in allowed list. Try another word.")
    /\ rejects' = IF rejects < MaxRejects THEN rejects + 1 ELSE rejects
    /\ UNCHANGED <<script, pc, added, solution, length, attempt, feedback, graded,
                   numberVars, status, uncaught, callVars>>

\* An accepted line: graded, then the round is won, lost or goes on.
GuessAccepted(line) ==
    /\ script = "VSWorlde.py"
    /\ pc = "guess"
    /\ stdin' = Line(line)
    /\ graded' = graded + 1
    /\ rejects' = 0
    /\ \E g \in {str_lower(str_strip(line))} :
        /\ ~wrong_length(g)
        /\ ~not_in_allowed(g)
        /\ guess' = g
        /\ \E r \in {grade_guess(solution, g)} :
           IF r.kind = "raise"
           THEN /\ feedback' = feedback
                /\ attempt' = attempt
                /\ pc' = "exit"
                /\ printed' = Msg("Traceback")
                /\ status' = died_of(r.exc)
                /\ uncaught' = r.exc
           ELSE /\ feedback' = r.value
                /\ uncaught' = uncaught
                /\ IF all_green(r.value)
                   THEN /\ attempt' = attempt
                        /\ pc' = "exit"
                        /\ printed' = Msg("Nice! You guessed the word")
                        /\ status' = 0
                   ELSE IF last_attempt(attempt)
                        THEN /\ attempt' = attempt
                             /\ pc' = "exit"
                             /\ printed' = [msg |-> "Out of guesses - the word was",
                                            arg |-> solution]
                             /\ status' = 0
                        ELSE /\ attempt' = attempt + 1
                             /\ pc' = "guess"
                             /\ printed' = Msg("feedback")
                             /\ status' = status
    /\ UNCHANGED <<script, added, solution, length, numberVars, callVars>>

\* Ctrl-C or end of input at the guess prompt: the exception leaves
\* play_interactive and reaches main's except clause.
GuessAbort(exc) ==
    /\ script = "VSWorlde.py"
    /\ pc = "guess"
    /\ stdin' = [kind |-> exc, text |-> <<>>]
    /\ pc' = "exit"
    /\ IF main_catches(exc)
       THEN printed' = Msg("Goodbye.") /\ status' = 1 /\ uncaught' = ""
       ELSE printed' = Msg("Traceback") /\ status' = died_of(exc) /\ uncaught' = exc
    /\ UNCHANGED <<script, added, roundVars, numberVars, callVars>>

NextVSWorlde ==
    \/ MainSelftest
    \/ \E w \in WordArgs : MainBadWord(w)
    \/ \E w \in WordArgs : MainForced(w)
    \/ MainRandom
    \/ \E line \in GuessLines \cup {solution} : GuessWrongLength(line)
    \/ \E line \in GuessLines \cup {solution} : GuessNotAllowed(line)
    \/ \E line \in GuessLines \cup {solution} : GuessAccepted(line)
    \/ \E exc \in AbortKinds : GuessAbort(exc)

---------------------------------------------------------------------------
(* test.py: main_menu and play_guess_the_number.                           *)

\* A character that str.isdigit() accepts and int() refuses (superscript two).
OtherDigits == {"U+00B2"}

\* str.isdigit(): non-empty, digit characters only.
str_isdigit(s) ==
    /\ s # <<>>
    /\ \A i \in 1..Len(s) : s[i] \in Range(DecimalDigits) \cup OtherDigits

\* Whether int(s) succeeds on a string that passed isdigit().
int_parses(s) == \A i \in 1..Len(s) : s[i] \in Range(DecimalDigits)

digit_value(ch) == (CHOOSE k \in DOMAIN DecimalDigits : DecimalDigits[k] = ch) - 1

\* int(s) for a string of decimal digits.
RECURSIVE str_int(_)
str_int(s) ==
    IF s = <<>> THEN 0
    ELSE str_int(SubSeq(s, 1, Len(s) - 1)) * 10 + digit_value(s[Len(s)])

\* What a user types to enter the number n.
RECURSIVE decimal(_)
decimal(n) ==
    IF n < 10 THEN <<DecimalDigits[n + 1]>>
    ELSE decimal(n \div 10) \o <<DecimalDigits[(n % 10) + 1]>>

\* difficulties: choice -> (high, max_attempts)
difficulties ==
    [c \in {<<"1">>, <<"2">>, <<"3">>} |->
        IF c = <<"1">> THEN [high |-> 10, max_attempts |-> 6]
        ELSE IF c = <<"2">> THEN [high |-> 50, max_attempts |-> 8]
        ELSE [high |-> 100, max_attempts |-> 10]]

\* Lines the user may type at the menu, difficulty and play-again prompts.
MenuLines == { <<"1">>, <<"q">>, <<" ","Q"," ">>, <<"2">>, <<>> }

DifficultyLines == { <<"1">>, <<" ","2">>, <<"3">>, <<"Q">>, <<"4">>, <<>> }

AgainLines == { <<"y">>, <<" ","Y">>, <<"n">>, <<>> }

\* Lines the user may type at the guess prompt when the number is n.
NumberLines(n) ==
    { decimal(n - 1), decimal(n), decimal(n + 1), <<"0">> \o decimal(n),
      <<"x">>, <<>>, <<" ","7">>, <<"U+00B2">> }

\* except (KeyboardInterrupt, EOFError) around the guess prompt
prompt_catches(exc) == exc \in {"KeyboardInterrupt", "EOFError"}

\* except (KeyboardInterrupt, EOFError) around main_menu()
script_catches(exc) == exc \in {"KeyboardInterrupt", "EOFError"}

\* play_guess_the_number returns: its locals are gone with its frame.
FrameDropped ==
    /\ number' = 0
    /\ high' = 0
    /\ max_attempts' = 0
    /\ attempts' = 0

\* main_menu: a line at "Choose an option".
MenuInput(line) ==
    /\ script = "test.py"
    /\ pc = "menu"
    /\ stdin' = Line(line)
    /\ IF str_lower(str_strip(line)) = <<"1">>
       THEN pc' = "difficulty" /\ printed' = Msg("Choose difficulty") /\ status' = status
       ELSE IF str_lower(str_strip(line)) = <<"q">>
            THEN pc' = "exit" /\ printed' = Msg("Thanks for playing - goodbye!") /\ status' = 0
            ELSE pc' = "menu" /\ printed' = Msg("Unknown option.") /\ status' = status
    /\ UNCHANGED <<script, added, roundVars, numberVars, uncaught, callVars>>

\* play_guess_the_number: q (back to the menu) or an invalid choice.
DifficultyOther(line) ==
    /\ script = "test.py"
    /\ pc = "difficulty"
    /\ \/ str_lower(str_strip(line)) = <<"q">>
       \/ str_strip(line) \notin DOMAIN difficulties
    /\ stdin' = Line(line)
    /\ IF str_lower(str_strip(line)) = <<"q">>
       THEN pc' = "menu" /\ printed' = Msg("Menu") /\ FrameDropped
       ELSE /\ pc' = "difficulty"
            /\ printed' = Msg("Invalid choice. Try again.")
            /\ UNCHANGED numberVars
    /\ UNCHANGED <<script, added, roundVars, status, uncaught, callVars>>

\* The values random.randint(1, high) may return for the choice typed.
randint_range(line) ==
    IF str_strip(line) \in DOMAIN difficulties
    THEN 1..difficulties[str_strip(line)].high
    ELSE {}

\* play_guess_the_number: a valid choice; the number is drawn and the
\* first attempt is prompted for.
DifficultyPick(line, n) ==
    /\ script = "test.py"
    /\ pc = "difficulty"
    /\ str_lower(str_strip(line)) # <<"q">>
    /\ str_strip(line) \in DOMAIN difficulties
    /\ stdin' = Line(line)
    /\ high' = difficulties[str_strip(line)].high
    /\ max_attempts' = difficulties[str_strip(line)].max_attempts
    /\ number' = n
    /\ attempts' = 1
    /\ pc' = "number"
    /\ printed' = Msg("I'm thinking of a number")
    /\ UNCHANGED <<script, added, roundVars, status, uncaught, callVars>>

\* play_guess_the_number: a line at "Your guess".
NumberInput(line) ==
    /\ script = "test.py"
    /\ pc = "number"
    /\ stdin' = Line(line)
    /\ IF ~str_isdigit(line)
       THEN /\ printed' = Msg("Please enter a whole number.")
            /\ UNCHANGED <<pc, attempts, status, uncaught>>
       ELSE IF ~int_parses(line)
            THEN /\ pc' = "exit"
                 /\ printed' = Msg("Traceback")
                 /\ status' = died_of("ValueError")
                 /\ uncaught' = "ValueError"
                 /\ attempts' = attempts
            ELSE IF str_int(line) = number
                 THEN /\ pc' = "again"
                      /\ printed' = Msg("Correct!")
                      /\ UNCHANGED <<attempts, status, uncaught>>
                 ELSE IF attempts < max_attempts
                      THEN /\ pc' = "number"
                           /\ attempts' = attempts + 1
                           /\ printed' = Msg(IF str_int(line) < number
                                             THEN "Too low." ELSE "Too high.")
                           /\ UNCHANGED <<status, uncaught>>
                      ELSE /\ pc' = "again"
                           /\ printed' = Msg("Out of attempts!")
                           /\ UNCHANGED <<attempts, status, uncaught>>
    /\ UNCHANGED <<script, added, roundVars, number, high, max_attempts, callVars>>

\* play_guess_the_number: a line at "Play again?".
AgainInput(line) ==
    /\ script = "test.py"
    /\ pc = "again"
    /\ stdin' = Line(line)
    /\ IF str_lower(str_strip(line)) # <<"y">>
       THEN pc' = "menu" /\ printed' = Msg("Menu") /\ FrameDropped
       ELSE /\ pc' = "difficulty"
            /\ printed' = Msg("Choose difficulty")
            /\ UNCHANGED numberVars
    /\ UNCHANGED <<script, added, roundVars, status, uncaught, callVars>>

\* Ctrl-C or end of input at "Your guess": print, then sys.exit(0).
NumberAbort(exc) ==
    /\ script = "test.py"
    /\ pc = "number"
    /\ stdin' = [kind |-> exc, text |-> <<>>]
    /\ pc' = "exit"
    /\ IF prompt_catches(exc)
       THEN printed' = Msg("Goodbye!") /\ status' = 0 /\ uncaught' = ""
       ELSE IF script_catches(exc)
            THEN printed' = Msg("Exiting. Bye!") /\ status' = 0 /\ uncaught' = ""
            ELSE printed' = Msg("Traceback") /\ status' = died_of(exc) /\ uncaught' = exc
    /\ UNCHANGED <<script, added, roundVars, numberVars, callVars>>

\* Ctrl-C or end of input at one of the other prompts: the exception
\* reaches the except clause around main_menu().
OtherAbort(exc) ==
    /\ script = "test.py"
    /\ pc \in {"menu", "difficulty", "again"}
    /\ stdin' = [kind |-> exc, text |-> <<>>]
    /\ pc' = "exit"
    /\ IF script_catches(exc)
       THEN printed' = Msg("Exiting. Bye!") /\ status' = 0 /\ uncaught' = ""
       ELSE printed' = Msg("Traceback") /\ status' = died_of(exc) /\ uncaught' = exc
    /\ UNCHANGED <<script, added, roundVars, numberVars, callVars>>

NextTest ==
    \/ \E line \in MenuLines : MenuInput(line)
    \/ \E line \in DifficultyLines : DifficultyOther(line)
    \/ \E line \in DifficultyLines :
          \E n \in randint_range(line) : DifficultyPick(line, n)
    \/ /\ pc = "number"
       /\ \E line \in NumberLines(number) : NumberInput(line)
    \/ \E line \in AgainLines : AgainInput(line)
    \/ \E exc \in AbortKinds : NumberAbort(exc)
    \/ \E exc \in AbortKinds : OtherAbort(exc)

---------------------------------------------------------------------------
(* The specifications of the scripts.                                      *)

\* A run of VSWorlde.py.
Next == NextVSWorlde

Spec == Init /\ [][Next]_vars

\* A run of VSWorlde.py whose user keeps supplying accepted guesses: a round
\* that can take one eventually does.
FairSpec ==
    Spec /\ WF_vars(\E line \in GuessLines \cup {solution} : GuessAccepted(line))

\* A run of either script.
InitScripts == Started("VSWorlde.py") \/ Started("test.py")

NextScripts == NextVSWorlde \/ NextTest

SpecScripts == InitScripts /\ [][NextScripts]_vars

---------------------------------------------------------------------------
(* Properties of grade_guess, checked under SpecGrade.                     *)

\* The inputs as grade_guess compares them, and the feedback it returned.
LoweredSolution == str_lower(arg_solution)

LoweredGuess == str_lower(arg_guess)

Returned == ret.kind = "return"

\* Occurrences of character c in string s.
Occ(s, c) == Cardinality({j \in 1..Len(s) : s[j] = c})

\* Positions guessing c that the feedback fb marks green or yellow.
Credited(gss, fb, c) ==
    Cardinality({i \in 1..Len(gss) : gss[i] = c /\ fb[i] \in {GREEN, YELLOW}})

\* Positions that are not exact matches.
Inexact(sol, gss) == {i \in 1..Len(gss) : gss[i] # sol[i]}

\* C1: for every character c, the positions graded green or yellow whose
\* guessed character (as compared, i.e. lower-cased) is c are at most as many
\* as the occurrences of c in the solution.
C1_CreditNeverExceedsOccurrences ==
    Returned =>
        \A c \in Range(LoweredGuess) :
            Credited(LoweredGuess, ret.value, c) <= Occ(LoweredSolution, c)

\* C1's case: a letter guessed more often than the solution holds it, every
\* occurrence of the solution credited, and one guess of it left black.
C1_Witness ==
    /\ Returned
    /\ \E c \in Range(LoweredGuess) :
        /\ Occ(LoweredGuess, c) > Occ(LoweredSolution, c)
        /\ Occ(LoweredSolution, c) >= 1
        /\ Credited(LoweredGuess, ret.value, c) = Occ(LoweredSolution, c)
        /\ \E i \in 1..Len(LoweredGuess) :
            LoweredGuess[i] = c /\ ret.value[i] = YELLOW

\* C2: position i is green exactly when the lower-cased guess and solution
\* agree at i; so an equal guess is all green and an all-green result means
\* the guess equals the solution.
C2_ExactIffEqualAtPosition ==
    Returned =>
        /\ Len(ret.value) = Len(LoweredGuess)
        /\ \A i \in 1..Len(LoweredGuess) :
            (ret.value[i] = GREEN) <=> (LoweredGuess[i] = LoweredSolution[i])
        /\ (LoweredSolution = LoweredGuess) <=> all_green(ret.value)

\* C2's case: a green position whose letter the solution also holds at a
\* position the guess misses, beside a position that is not green.
C2_Witness ==
    /\ Returned
    /\ \E i, j \in 1..Len(LoweredGuess) :
        /\ i # j
        /\ ret.value[i] = GREEN
        /\ ret.value[j] # GREEN
        /\ LoweredSolution[j] = LoweredGuess[i]

\* C3: a position is black only when every occurrence of its letter in the
\* solution is already credited to a green or yellow position.
C3_AbsentOnlyWhenExhausted ==
    Returned =>
        \A i \in 1..Len(LoweredGuess) :
            ret.value[i] = BLACK =>
                Credited(LoweredGuess, ret.value, LoweredGuess[i])
                    = Occ(LoweredSolution, LoweredGuess[i])

\* C3's case: a black position whose letter does occur in the solution.
C3_Witness ==
    /\ Returned
    /\ \E i \in 1..Len(LoweredGuess) :
        /\ ret.value[i] = BLACK
        /\ Occ(LoweredSolution, LoweredGuess[i]) >= 1

\* C4: grading the inputs as given ends as grading their lower-cased forms.
C4_CaseInsensitive ==
    ret.kind # "none" => ret = grade_guess(LoweredSolution, LoweredGuess)

\* C4's case: inputs of equal length that differ from their lower-cased
\* forms, with a green where the raw characters differ in case only.
C4_Witness ==
    /\ Returned
    /\ arg_guess # LoweredGuess
    /\ arg_solution # LoweredSolution
    /\ \E i \in 1..Len(arg_guess) :
        arg_guess[i] # arg_solution[i] /\ ret.value[i] = GREEN

\* C5: with different lengths the call raises ValueError and hands back no
\* feedback; with equal lengths it returns.
C5_LengthMismatchRaises ==
    ret.kind # "none" =>
        IF Len(arg_solution) # Len(arg_guess)
        THEN ret.kind = "raise" /\ ret.exc = "ValueError" /\ ret.value = <<>>
        ELSE ret.kind = "return" /\ ret.exc = ""

\* C5's case: a guess longer than a non-empty solution, and the call raised.
C5_Witness ==
    /\ ret.kind = "raise"
    /\ Len(arg_guess) > Len(arg_solution)
    /\ Len(arg_solution) > 0

\* The letters of the solution left unmatched by the greens, counted
\* before any yellow is given (the spec's remaining[c]).
Unmatched(sol, gss, c) ==
    Cardinality({j \in Inexact(sol, gss) : sol[j] = c})

\* The inexact positions left of i that guess the same letter as i.
EarlierSame(sol, gss, i) ==
    Cardinality({j \in Inexact(sol, gss) : j < i /\ gss[j] = gss[i]})

\* C9: the result is that of the two-pass reference: one classification per
\* position; green at the exact matches; among the inexact positions
\* guessing c the leftmost min(k, remaining[c]) yellow and the others black;
\* and the four self-test rows grade as the table says.
C9_TwoPassReference ==
    Returned =>
        /\ Len(ret.value) = Len(LoweredGuess)
        /\ \A i \in 1..Len(LoweredGuess) :
            ret.value[i] =
                IF i \notin Inexact(LoweredSolution, LoweredGuess) THEN GREEN
                ELSE IF EarlierSame(LoweredSolution, LoweredGuess, i)
                          < Unmatched(LoweredSolution, LoweredGuess, LoweredGuess[i])
                     THEN YELLOW
                     ELSE BLACK
        /\ \A k \in DOMAIN tests :
            (arg_solution = tests[k].sol /\ arg_guess = tests[k].guess)
                => ret.value = tests[k].expected

\* C9's case: a letter guessed at two inexact positions and once exactly,
\* the left inexact one yellow and the right one black.
C9_Witness ==
    /\ Returned
    /\ \E i, j, e \in 1..Len(LoweredGuess) :
        /\ i < j
        /\ {i, j} \subseteq Inexact(LoweredSolution, LoweredGuess)
        /\ e \notin Inexact(LoweredSolution, LoweredGuess)
        /\ LoweredGuess[i] = LoweredGuess[j]
        /\ LoweredGuess[e] = LoweredGuess[i]
        /\ ret.value[i] = YELLOW
        /\ ret.value[j] = BLACK

---------------------------------------------------------------------------
(* Properties of a round of VSWorlde.py, checked under Spec and FairSpec.  *)

Won == pc = "exit" /\ printed.msg = "Nice! You guessed the word"

Lost == pc = "exit" /\ printed.msg = "Out of guesses - the word was"

\* What holds of the count of graded guesses and of the two ways a round
\* that is played to its end terminates.
RoundContract ==
    /\ graded <= max_guesses
    /\ pc = "guess" =>
        /\ attempt \in 1..max_guesses
        /\ graded = attempt - 1
    /\ (graded > 0 /\ all_green(feedback)) <=> Won
    /\ (graded = max_guesses /\ ~all_green(feedback)) <=> Lost
    /\ Won => guess = solution /\ graded = attempt /\ status = 0
    /\ Lost => printed.arg = solution /\ status = 0

\* C6: a round ends successfully at the first accepted guess graded all
\* green, with no prompt after it; it ends unsuccessfully, revealing the
\* solution, exactly when the 6th accepted guess is not all green; at most 6
\* guesses are ever graded; and with a user who keeps supplying accepted
\* guesses every round ends.
C6_RoundTerminates ==
    /\ []RoundContract
    /\ (pc = "guess") ~> (pc = "exit")

\* C6's case: a round lost on its 6th graded guess.
C6_Witness == Lost /\ graded = max_guesses /\ attempt = max_guesses

\* The line is one the round rejects: wrong length, or not in ALLOWED.
RejectedLine(text) ==
    \/ Len(str_lower(str_strip(text))) # length
    \/ str_lower(str_strip(text)) \notin ALLOWED

\* C7: a step that reads a rejected line at the guess prompt stays at the
\* prompt of the same attempt: nothing is graded, the attempt counter and
\* the last feedback are unchanged and the process keeps running, however
\* many rejected lines came before.
C7_RejectedInputReprompts ==
    [][ (pc = "guess" /\ stdin'.kind = "line" /\ RejectedLine(stdin'.text))
            => /\ pc' = "guess"
               /\ attempt' = attempt
               /\ graded' = graded
               /\ feedback' = feedback
               /\ solution' = solution
               /\ status' = -1
               /\ rejects' >= rejects ]_vars

\* C7's case: as many consecutive rejected lines as the count holds, in the
\* middle of a round, the last one a word of the right length.
C7_Witness ==
    /\ pc = "guess"
    /\ rejects = MaxRejects
    /\ graded >= 1
    /\ attempt = graded + 1
    /\ Len(guess) = length
    /\ guess \notin ALLOWED

\* C10: at every prompt of a round the solution is a guess the round
\* accepts: it has the expected length and is in ALLOWED, so the step that
\* wins the round can be taken.
C10_SolutionIsAcceptedGuess ==
    pc = "guess" =>
        /\ Len(solution) = length
        /\ solution \in ALLOWED
        /\ ENABLED GuessAccepted(solution)

---------------------------------------------------------------------------
(* Properties of both scripts, checked under SpecScripts.                  *)

PromptPcs == {"guess", "menu", "difficulty", "number", "again"}

Goodbyes == {"Goodbye.", "Goodbye!", "Exiting. Bye!"}

\* The user aborts at the prompt the script stands at.
AbortAtPrompt == \E exc \in AbortKinds : GuessAbort(exc) \/ NumberAbort(exc) \/ OtherAbort(exc)

\* C8: every prompt of either script can be aborted; a step that reads an
\* abort (Ctrl-C or end of input) is taken at a prompt and ends the process
\* with a goodbye message, no uncaught exception and the script's normal
\* status (1 from VSWorlde's main, 0 from test.py), nothing being graded or
\* counted; and an exited process takes no step.
C8_AbortExitsGracefully ==
    /\ [](pc \in PromptPcs \cup {"main", "exit"})
    /\ [](pc \in PromptPcs => ENABLED AbortAtPrompt)
    /\ [][ /\ (stdin'.kind \in AbortKinds /\ stdin.kind \notin AbortKinds)
            => /\ pc \in PromptPcs
               /\ pc' = "exit"
               /\ uncaught' = ""
               /\ printed'.msg \in Goodbyes
               /\ status' = IF script = "VSWorlde.py" THEN 1 ELSE 0
               /\ graded' = graded
               /\ feedback' = feedback
               /\ attempts' = attempts
           /\ pc = "exit" => UNCHANGED vars ]_vars

\* C8's case: end of input in the middle of a round of VSWorlde.
C8_Witness ==
    /\ script = "VSWorlde.py"
    /\ pc = "exit"
    /\ stdin.kind = "EOFError"
    /\ graded >= 1
    /\ status = 1
    /\ printed.msg = "Goodbye."

=============================================================================
